---- MODULE Spec2Model ----
(***************************************************************************)
(* A model of cvrf_client.py: one HTTP GET of the monthly MSRC CVRF        *)
(* bulletin, four passes of MSRCStats over its vulnerability list, and     *)
(* the five-sheet Excel report that main() writes.                         *)
(*                                                                         *)
(* Representation.  A Python str that the code searches or lower-cases is  *)
(* a sequence of one-character strings; a str that is only compared or     *)
(* concatenated is a TLA+ string.  A JSON object is a record whose absent  *)
(* keys are absent fields, read through Get as dict.get reads them.  A     *)
(* JSON number is [py |-> "int" | "float", tenths |-> n], so that float()  *)
(* is a conversion and 8.0 is tenths = 80.  A Python dict that is iterated *)
(* is the sequence of its [key, val] items in insertion order, and a       *)
(* DataFrame is the sequence of its rows.  A row's Title column is copied  *)
(* from the record exactly as CVE is and is not carried in the model.      *)
(***************************************************************************)
EXTENDS Integers, Sequences, FiniteSets, TLC

VARIABLES
    pc,           \* position of the caller (main, or a client of MSRCStats)
    requests,     \* number of requests.get calls made so far
    resp,         \* the response of the GET: [url, status_code, body]
    exit_msg,     \* what sys.exit was given: <<>> or <<status_code, year_month>>
    year_month,   \* self.year_month
    title,        \* self.title
    vulns,        \* self.vulns
    ran,          \* names of the MSRCStats passes that have returned
    threshold,    \* the threshold argument of the last high_severity call
    df_summary,   \* main's df_summary
    df_class,     \* result of classification_counts
    df_wild,      \* result of exploited_in_wild
    df_high,      \* result of high_severity
    df_likely,    \* result of likely_exploited
    files         \* the files on disk: a set of [name, sheets]

vars == <<pc, requests, resp, exit_msg, year_month, title, vulns, ran, threshold,
          df_summary, df_class, df_wild, df_high, df_likely, files>>

self == <<year_month, title, vulns>>

dfs == <<df_summary, df_class, df_wild, df_high, df_likely>>

----------------------------------------------------------------------------
(* Bound of the model *)

\* A bulletin's size is its number of vulnerability records plus the number
\* of threat entries and CVSS score sets in them; the server answers with
\* every bulletin of size at most MaxSize.
MaxSize == 4

----------------------------------------------------------------------------
(* Constants of the program *)

THREAT_TYPE_VULN == 0

THREAT_TYPE_EXPLOIT == 1

HTTP_OK == 200

ElevationOfPrivilege ==
    <<"E","l","e","v","a","t","i","o","n"," ","o","f"," ","P","r","i","v","i","l","e","g","e">>

SecurityFeatureBypass ==
    <<"S","e","c","u","r","i","t","y"," ","F","e","a","t","u","r","e"," ","B","y","p","a","s","s">>

RemoteCodeExecution ==
    <<"R","e","m","o","t","e"," ","C","o","d","e"," ","E","x","e","c","u","t","i","o","n">>

InformationDisclosure ==
    <<"I","n","f","o","r","m","a","t","i","o","n"," ","D","i","s","c","l","o","s","u","r","e">>

DenialOfService ==
    <<"D","e","n","i","a","l"," ","o","f"," ","S","e","r","v","i","c","e">>

Spoofing ==
    <<"S","p","o","o","f","i","n","g">>

EdgeChromium ==
    <<"E","d","g","e"," ","-"," ","C","h","r","o","m","i","u","m">>

VULN_CLASSIFICATIONS ==
    << ElevationOfPrivilege, SecurityFeatureBypass, RemoteCodeExecution,
       InformationDisclosure, DenialOfService, Spoofing, EdgeChromium >>

\* '11655', the product ID that line 51 looks for
CHROMIUM_PRODUCT_ID == "11655"

\* 'Exploited:Yes', the needle of line 64
ExploitedYes ==
    <<"E","x","p","l","o","i","t","e","d",":","Y","e","s">>

\* 'exploitation more likely', the needle of line 81
ExploitationMoreLikely ==
    <<"e","x","p","l","o","i","t","a","t","i","o","n"," ","m","o","r","e"," ","l","i","k","e","l","y">>

\* the literal 0 of lines 62 and 72, and the literals 0.0 and 8.0
PyInt(n) == [py |-> "int", tenths |-> 10 * n]

PyFloat(t) == [py |-> "float", tenths |-> t]

DEFAULT_THRESHOLD == PyFloat(80)

NO_TITLE == "[no title]"

BASE_URL == "https://api.msrc.microsoft.com/cvrf/v3.0/cvrf/"

\* The sheet names of lines 103-107; ">=" stands for the one character
\* U+2265 of the source, which a TLA+ string cannot hold.
SHEET_NAMES ==
    << "Summary", "By Classification", "Exploited in Wild",
       "High Severity (>=8.0)", "Likely Exploited" >>

----------------------------------------------------------------------------
(* Python primitives the code uses *)

\* dict.get(key, default)
Get(obj, key, default) == IF key \in DOMAIN obj THEN obj[key] ELSE default

\* {} as a default of dict.get
EmptyObj == [k \in {} |-> 0]

\* needle in hay, for two str
Contains(needle, hay) ==
    \E i \in 0..(Len(hay) - Len(needle)) :
        \A j \in 1..Len(needle) : hay[i + j] = needle[j]

UpperCase ==
    <<"A","B","C","D","E","F","G","H","I","J","K","L","M",
      "N","O","P","Q","R","S","T","U","V","W","X","Y","Z">>

LowerCase ==
    <<"a","b","c","d","e","f","g","h","i","j","k","l","m",
      "n","o","p","q","r","s","t","u","v","w","x","y","z">>

LowerChar(c) ==
    IF \E k \in DOMAIN UpperCase : UpperCase[k] = c
    THEN LowerCase[CHOOSE k \in DOMAIN UpperCase : UpperCase[k] = c]
    ELSE c

\* str.lower()
Lower(s) == [i \in 1..Len(s) |-> LowerChar(s[i])]

\* float(x) of a number
Float(x) == [py |-> "float", tenths |-> x.tenths]

\* a >= b of two numbers
GE(a, b) == a.tenths >= b.tenths

\* x in lst, for a list
InList(x, lst) == \E i \in DOMAIN lst : lst[i] = x

\* key in d, for a dict
HasKey(d, key) == \E i \in DOMAIN d : d[i].key = key

\* d[key] += 1, for a key of d
Incr(d, key) ==
    [i \in DOMAIN d |-> IF d[i].key = key THEN [d[i] EXCEPT !.val = @ + 1] ELSE d[i]]

----------------------------------------------------------------------------
(* Field accessors of the passes *)

\* t.get('Type') == ty
TypeIs(t, ty) == "Type" \in DOMAIN t /\ t.Type = ty

\* t.get('Description', {}).get('Value', '')
DescValue(t) == Get(Get(t, "Description", EmptyObj), "Value", <<>>)

\* v.get('Threats', [])
Threats(v) == Get(v, "Threats", <<>>)

\* v.get('CVSSScoreSets', [])
ScoreSets(v) == Get(v, "CVSSScoreSets", <<>>)

----------------------------------------------------------------------------
(* MSRCStats.classification_counts *)

\* Variant: the last label is left out of the initial dict.
InitCounts_short ==
    [i \in 1..(Len(VULN_CLASSIFICATIONS) - 1) |-> [key |-> VULN_CLASSIFICATIONS[i], val |-> 0]]

\* counts = {label: 0 for label in VULN_CLASSIFICATIONS}
InitCounts ==
    [i \in DOMAIN VULN_CLASSIFICATIONS |-> [key |-> VULN_CLASSIFICATIONS[i], val |-> 0]]

\* Variant: Edge - Chromium is credited whatever the product IDs.
Credit_any_product(t, seen, counts) ==
    IF ~TypeIs(t, THREAT_TYPE_VULN)
    THEN seen
    ELSE IF HasKey(counts, DescValue(t)) THEN seen \cup {DescValue(t)} ELSE seen

\* One turn of the loop over a vulnerability's threats (lines 47-54): the
\* set seen after threat t.
Credit(t, seen, counts) ==
    IF ~TypeIs(t, THREAT_TYPE_VULN)
    THEN seen
    ELSE LET desc == DescValue(t)
         IN  IF desc = EdgeChromium
             THEN IF InList(CHROMIUM_PRODUCT_ID, Get(t, "ProductID", <<>>))
                  THEN seen \cup {EdgeChromium}
                  ELSE seen
             ELSE IF HasKey(counts, desc)
                  THEN seen \cup {desc}
                  ELSE seen

\* for t in v.get('Threats', []): ... (lines 46-54)
RECURSIVE ScanThreats(_, _, _)
ScanThreats(ts, seen, counts) ==
    IF ts = <<>>
    THEN seen
    ELSE ScanThreats(Tail(ts), Credit(Head(ts), seen, counts), counts)

\* for label in seen: counts[label] += 1 (lines 55-56)
RECURSIVE AddSeen(_, _)
AddSeen(counts, seen) ==
    IF seen = {}
    THEN counts
    ELSE LET label == CHOOSE l \in seen : TRUE
         IN  AddSeen(Incr(counts, label), seen \ {label})

\* Variant: the counts are credited after each threat entry, with no set
\* per vulnerability.
RECURSIVE CountThreats(_, _)
CountThreats(ts, counts) ==
    IF ts = <<>>
    THEN counts
    ELSE CountThreats(Tail(ts), AddSeen(counts, Credit(Head(ts), {}, counts)))

RECURSIVE CountVulns_per_threat(_, _)
CountVulns_per_threat(vs, counts) ==
    IF vs = <<>>
    THEN counts
    ELSE CountVulns_per_threat(Tail(vs), CountThreats(Threats(Head(vs)), counts))

\* for v in self.vulns: ... (lines 44-56)
RECURSIVE CountVulns(_, _)
CountVulns(vs, counts) ==
    IF vs = <<>>
    THEN counts
    ELSE CountVulns(Tail(vs), AddSeen(counts, ScanThreats(Threats(Head(vs)), {}, counts)))

\* DataFrame.from_dict(counts, orient='index', columns=['Count'])
\*     .rename_axis('Classification')
FromDict(counts) ==
    [i \in DOMAIN counts |-> [Classification |-> counts[i].key, Count |-> counts[i].val]]

classification_counts(vs) == FromDict(CountVulns(vs, InitCounts))

----------------------------------------------------------------------------
(* MSRCStats.exploited_in_wild *)

\* Variant: the generator skips the score sets that have no BaseScore.
WildBase_first_found(v) ==
    LET found == SelectSeq(ScoreSets(v), LAMBDA e : "BaseScore" \in DOMAIN e)
    IN  IF found = <<>> THEN PyInt(0) ELSE Head(found).BaseScore

\* next((s.get('BaseScore', 0) for s in v.get('CVSSScoreSets', [])), 0)
WildBase(v) ==
    IF ScoreSets(v) = <<>>
    THEN PyInt(0)
    ELSE Get(Head(ScoreSets(v)), "BaseScore", PyInt(0))

\* the condition of line 64
IsExploited(t) ==
    TypeIs(t, THREAT_TYPE_EXPLOIT) /\ Contains(ExploitedYes, DescValue(t))

\* Variant: the loop has no break.
RECURSIVE WildScan_no_break(_, _)
WildScan_no_break(ts, v) ==
    IF ts = <<>>
    THEN <<>>
    ELSE (IF IsExploited(Head(ts))
          THEN << [CVE |-> Get(v, "CVE", "None"), Score |-> WildBase(v)] >>
          ELSE <<>>) \o WildScan_no_break(Tail(ts), v)

\* for t in v.get('Threats', []): if ...: rows.append(...); break
RECURSIVE WildScan(_, _)
WildScan(ts, v) ==
    IF ts = <<>>
    THEN <<>>
    ELSE IF IsExploited(Head(ts))
         THEN << [CVE |-> Get(v, "CVE", "None"), Score |-> WildBase(v)] >>
         ELSE WildScan(Tail(ts), v)

RECURSIVE exploited_in_wild(_)
exploited_in_wild(vs) ==
    IF vs = <<>>
    THEN <<>>
    ELSE WildScan(Threats(Head(vs)), Head(vs)) \o exploited_in_wild(Tail(vs))

----------------------------------------------------------------------------
(* MSRCStats.high_severity *)

\* next((float(s.get('BaseScore', 0)) for s in v.get('CVSSScoreSets', [])), 0.0)
HighBase(v) ==
    IF ScoreSets(v) = <<>>
    THEN PyFloat(0)
    ELSE Float(Get(Head(ScoreSets(v)), "BaseScore", PyInt(0)))

\* Variant: bs > threshold.
HighRow_strict(v, th) ==
    IF HighBase(v).tenths > th.tenths
    THEN << [CVE |-> Get(v, "CVE", "None"), Score |-> HighBase(v)] >>
    ELSE <<>>

\* if bs >= threshold: rows.append(...)
HighRow(v, th) ==
    IF GE(HighBase(v), th)
    THEN << [CVE |-> Get(v, "CVE", "None"), Score |-> HighBase(v)] >>
    ELSE <<>>

RECURSIVE high_severity(_, _)
high_severity(vs, th) ==
    IF vs = <<>>
    THEN <<>>
    ELSE HighRow(Head(vs), th) \o high_severity(Tail(vs), th)

----------------------------------------------------------------------------
(* MSRCStats.likely_exploited *)

\* Variant: the description is not lower-cased.
IsLikely_case_sensitive(t) ==
    TypeIs(t, THREAT_TYPE_EXPLOIT) /\ Contains(ExploitationMoreLikely, DescValue(t))

\* the condition of line 81
IsLikely(t) ==
    TypeIs(t, THREAT_TYPE_EXPLOIT) /\ Contains(ExploitationMoreLikely, Lower(DescValue(t)))

\* for t in v.get('Threats', []): if ...: rows.append(...); break
RECURSIVE LikelyScan(_, _)
LikelyScan(ts, v) ==
    IF ts = <<>>
    THEN <<>>
    ELSE IF IsLikely(Head(ts))
         THEN << [CVE |-> Get(v, "CVE", "None")] >>
         ELSE LikelyScan(Tail(ts), v)

RECURSIVE likely_exploited(_)
likely_exploited(vs) ==
    IF vs = <<>>
    THEN <<>>
    ELSE LikelyScan(Threats(Head(vs)), Head(vs)) \o likely_exploited(Tail(vs))

----------------------------------------------------------------------------
(* What the server may answer *)

Tampering ==
    <<"T","a","m","p","e","r","i","n","g">>

DisclosedNoExploitedYes ==
    <<"D","i","s","c","l","o","s","e","d",":","N","o",";","E","x","p","l","o","i","t","e","d",":","Y","e","s">>

ExploitedLowerYes ==
    <<"E","x","p","l","o","i","t","e","d",":","y","e","s">>

UpperMoreLikely ==
    <<"E","X","P","L","O","I","T","A","T","I","O","N"," ","M","O","R","E"," ","L","I","K","E","L","Y">>

ExploitedYesMoreLikely ==
    <<"E","x","p","l","o","i","t","e","d",":","Y","e","s",";","E","x","p","l","o","i","t","a","t","i","o","n"," ","M","o","r","e"," ","L","i","k","e","l","y">>

\* Threat entries: the labels under both types, the Edge label with and
\* without product 11655 and without a ProductID, a description outside the
\* fixed set, the two needles in the case the code looks for, in another
\* case and under the other type, and an entry with no Description.
ThreatPool ==
    { [Type |-> 0, Description |-> [Value |-> Spoofing], ProductID |-> <<"5">>],
      [Type |-> 0, Description |-> [Value |-> EdgeChromium], ProductID |-> <<"11655", "5">>],
      [Type |-> 0, Description |-> [Value |-> EdgeChromium], ProductID |-> <<"99999">>],
      [Type |-> 0, Description |-> [Value |-> EdgeChromium]],
      [Type |-> 0, Description |-> [Value |-> Tampering], ProductID |-> <<"11655">>],
      [Type |-> 1, Description |-> [Value |-> Spoofing], ProductID |-> <<"5">>],
      [Type |-> 1, Description |-> [Value |-> DisclosedNoExploitedYes]],
      [Type |-> 1, Description |-> [Value |-> ExploitedLowerYes]],
      [Type |-> 1, Description |-> [Value |-> UpperMoreLikely]],
      [Type |-> 0, Description |-> [Value |-> ExploitedYesMoreLikely]],
      [Type |-> 1] }

\* CVSS score sets: with a float or an int BaseScore, and with none.
ScorePool ==
    { [BaseScore |-> PyFloat(79)],
      [BaseScore |-> PyInt(8)],
      [Vector |-> "CVSS:3.1"] }

\* The vulnerability records of size k whose CVE is the i-th identifier.
VulnsOfSize(i, k) ==
    UNION { { [CVE |-> i, Threats |-> ts, CVSSScoreSets |-> ss] :
                ts \in [1..a -> ThreatPool], ss \in [1..(k - 1 - a) -> ScorePool] } :
            a \in 0..(k - 1) }
    \cup (IF k = 1 THEN { [CVE |-> i] } ELSE {})

\* The vulnerability lists of size n whose first CVE is the i-th identifier.
RECURSIVE VulnLists(_, _)
VulnLists(i, n) ==
    IF n = 0
    THEN { <<>> }
    ELSE UNION { { <<v>> \o rest : v \in VulnsOfSize(i, k), rest \in VulnLists(i + 1, n - k) } :
                 k \in 1..n }

Bulletins ==
    { [DocumentTitle |-> [Value |-> "Security Updates"], Vulnerability |-> vs] :
        vs \in UNION { VulnLists(1, n) : n \in 0..MaxSize } }
    \cup { [DocumentTitle |-> [Value |-> "Security Updates"]],
           [Vulnerability |-> <<>>] }

Statuses == { HTTP_OK, 404, 500 }

Responses ==
    { [status_code |-> HTTP_OK, body |-> b] : b \in Bulletins }
    \cup { [status_code |-> st, body |-> [error |-> "no data"]] : st \in Statuses \ {HTTP_OK} }

\* What datetime.now().strftime("%Y-%b") may return
Periods == { "2024-Jan" }

\* The thresholds a client passes to high_severity
Thresholds == { DEFAULT_THRESHOLD, PyFloat(0) }

PASSES == { "classification_counts", "exploited_in_wild", "high_severity", "likely_exploited" }

----------------------------------------------------------------------------
(* The state machine *)

Init ==
    /\ pc = "start"
    /\ requests = 0
    /\ resp = <<>>
    /\ exit_msg = <<>>
    /\ year_month = ""
    /\ title = ""
    /\ vulns = <<>>
    /\ ran = {}
    /\ threshold = DEFAULT_THRESHOLD
    /\ df_summary = <<>>
    /\ df_class = <<>>
    /\ df_wild = <<>>
    /\ df_high = <<>>
    /\ df_likely = <<>>
    /\ files = {}

\* MSRCStats(ym), with ym = current_year_month() (lines 88-89): __init__
\* calls _fetch_json, which makes the one GET and exits on a status other
\* than 200; otherwise title and vulns are read from the body.
\* Variant: the status is reported and the run goes on with the body.
fetch_failed_ignored(ym, r) ==
    /\ r.status_code # HTTP_OK
    /\ exit_msg' = << r.status_code, ym >>
    /\ title' = Get(Get(r.body, "DocumentTitle", EmptyObj), "Value", NO_TITLE)
    /\ vulns' = Get(r.body, "Vulnerability", <<>>)
    /\ pc' = "summary"

fetch_failed(ym, r) ==
    /\ r.status_code # HTTP_OK
    /\ exit_msg' = << r.status_code, ym >>
    /\ pc' = "exited"
    /\ UNCHANGED << title, vulns >>

fetch_ok(ym, r, next) ==
    /\ r.status_code = HTTP_OK
    /\ title' = Get(Get(r.body, "DocumentTitle", EmptyObj), "Value", NO_TITLE)
    /\ vulns' = Get(r.body, "Vulnerability", <<>>)
    /\ pc' = next
    /\ UNCHANGED exit_msg

MSRCStats_init(next) ==
    /\ pc = "start"
    /\ \E ym \in Periods, r \in Responses :
        /\ year_month' = ym
        /\ requests' = requests + 1
        /\ resp' = [url |-> BASE_URL \o ym] @@ r
        /\ \/ fetch_failed(ym, r)
           \/ fetch_ok(ym, r, next)
    /\ UNCHANGED << ran, threshold, dfs, files >>

\* df_summary = pd.DataFrame({...}) (lines 91-95)
summary ==
    /\ pc = "summary"
    /\ df_summary' = << [ReleaseTitle |-> title, YearMonth |-> year_month,
                         TotalVulns |-> Len(vulns)] >>
    /\ pc' = "class"
    /\ UNCHANGED << requests, resp, exit_msg, self, ran, threshold,
                    df_class, df_wild, df_high, df_likely, files >>

\* Variant: the pass reads the threats with v.pop('Threats', []).
call_classification_counts_pop ==
    /\ df_class' = classification_counts(vulns)
    /\ vulns' = [i \in DOMAIN vulns |->
                   [k \in DOMAIN vulns[i] \ {"Threats"} |-> vulns[i][k]]]
    /\ ran' = ran \cup { "classification_counts" }
    /\ UNCHANGED << requests, resp, exit_msg, year_month, title, threshold,
                    df_summary, df_wild, df_high, df_likely, files >>

\* A call of each pass: its result, and what it leaves of self.
call_classification_counts ==
    /\ df_class' = classification_counts(vulns)
    /\ ran' = ran \cup { "classification_counts" }
    /\ UNCHANGED << requests, resp, exit_msg, self, threshold,
                    df_summary, df_wild, df_high, df_likely, files >>

call_exploited_in_wild ==
    /\ df_wild' = exploited_in_wild(vulns)
    /\ ran' = ran \cup { "exploited_in_wild" }
    /\ UNCHANGED << requests, resp, exit_msg, self, threshold,
                    df_summary, df_class, df_high, df_likely, files >>

call_high_severity(th) ==
    /\ df_high' = high_severity(vulns, th)
    /\ threshold' = th
    /\ ran' = ran \cup { "high_severity" }
    /\ UNCHANGED << requests, resp, exit_msg, self,
                    df_summary, df_class, df_wild, df_likely, files >>

call_likely_exploited ==
    /\ df_likely' = likely_exploited(vulns)
    /\ ran' = ran \cup { "likely_exploited" }
    /\ UNCHANGED << requests, resp, exit_msg, self, threshold,
                    df_summary, df_class, df_wild, df_high, files >>

\* main, lines 96-99
main_class == pc = "class" /\ call_classification_counts /\ pc' = "wild"

main_wild == pc = "wild" /\ call_exploited_in_wild /\ pc' = "high"

main_high == pc = "high" /\ call_high_severity(DEFAULT_THRESHOLD) /\ pc' = "likely"

main_likely == pc = "likely" /\ call_likely_exploited /\ pc' = "write"

\* Variant: the last to_excel call is missing.
Sheets_without_likely ==
    << [sheet_name |-> SHEET_NAMES[1], df |-> df_summary],
       [sheet_name |-> SHEET_NAMES[2], df |-> df_class],
       [sheet_name |-> SHEET_NAMES[3], df |-> df_wild],
       [sheet_name |-> SHEET_NAMES[4], df |-> df_high] >>

\* the five to_excel calls of lines 103-107, in order
Sheets ==
    << [sheet_name |-> SHEET_NAMES[1], df |-> df_summary],
       [sheet_name |-> SHEET_NAMES[2], df |-> df_class],
       [sheet_name |-> SHEET_NAMES[3], df |-> df_wild],
       [sheet_name |-> SHEET_NAMES[4], df |-> df_high],
       [sheet_name |-> SHEET_NAMES[5], df |-> df_likely] >>

\* out_file = f"MSRC_{ym}.xlsx"
OutFile(ym) == "MSRC_" \o ym \o ".xlsx"

\* with pd.ExcelWriter(out_file, ...) as writer: ... (lines 101-114); the
\* workbook is saved when the block is left.
write_report ==
    /\ pc = "write"
    /\ files' = { f \in files : f.name # OutFile(year_month) }
                \cup { [name |-> OutFile(year_month), sheets |-> Sheets] }
    /\ pc' = "done"
    /\ UNCHANGED << requests, resp, exit_msg, self, ran, threshold, dfs >>

main_init == MSRCStats_init("summary")

Next ==
    \/ main_init
    \/ summary
    \/ main_class
    \/ main_wild
    \/ main_high
    \/ main_likely
    \/ write_report

Spec == Init /\ [][Next]_vars

\* A client of the class: it constructs MSRCStats and calls each pass once,
\* in any order, high_severity with any threshold.
client_init == MSRCStats_init("ready")

client_class ==
    pc = "ready" /\ "classification_counts" \notin ran /\ call_classification_counts /\ pc' = pc

client_wild ==
    pc = "ready" /\ "exploited_in_wild" \notin ran /\ call_exploited_in_wild /\ pc' = pc

client_high ==
    pc = "ready" /\ "high_severity" \notin ran /\ pc' = pc
    /\ \E th \in Thresholds : call_high_severity(th)

client_likely ==
    pc = "ready" /\ "likely_exploited" \notin ran /\ call_likely_exploited /\ pc' = pc

NextClient ==
    \/ client_init
    \/ client_class
    \/ client_wild
    \/ client_high
    \/ client_likely

SpecClient == Init /\ [][NextClient]_vars

----------------------------------------------------------------------------
(* Vocabulary of the properties, stated on the fetched document *)

LabelSet == { VULN_CLASSIFICATIONS[i] : i \in DOMAIN VULN_CLASSIFICATIONS }

FetchedVulns ==
    IF "Vulnerability" \in DOMAIN resp.body THEN resp.body.Vulnerability ELSE <<>>

ThreatsOf(v) ==
    IF "Threats" \in DOMAIN v THEN { v.Threats[i] : i \in DOMAIN v.Threats } ELSE {}

HasDescription(t) ==
    "Description" \in DOMAIN t /\ "Value" \in DOMAIN t.Description

IsOfType(t, ty) == "Type" \in DOMAIN t /\ t.Type = ty

\* t is a threat entry of type Vulnerability whose description is label
NamesLabel(t, label) ==
    IsOfType(t, 0) /\ HasDescription(t) /\ t.Description.Value = label

\* t names Edge - Chromium and lists product 11655
NamesChromium(t) ==
    /\ NamesLabel(t, EdgeChromium)
    /\ "ProductID" \in DOMAIN t
    /\ "11655" \in { t.ProductID[i] : i \in DOMAIN t.ProductID }

Matched(v, label) ==
    IF label = EdgeChromium
    THEN \E t \in ThreatsOf(v) : NamesChromium(t)
    ELSE \E t \in ThreatsOf(v) : NamesLabel(t, label)

\* needle occurs in hay
Occurs(needle, hay) ==
    \E i \in 1..(Len(hay) - Len(needle) + 1) :
        SubSeq(hay, i, i + Len(needle) - 1) = needle

SaysExploited(t) ==
    IsOfType(t, 1) /\ HasDescription(t) /\ Occurs(ExploitedYes, t.Description.Value)

\* some way of writing "exploitation more likely" in upper and lower case
\* occurs in the description
SaysLikely(t) ==
    /\ IsOfType(t, 1)
    /\ HasDescription(t)
    /\ LET d == t.Description.Value
           n == Len(ExploitationMoreLikely)
       IN  \E i \in 1..Len(d) :
             /\ i + n - 1 <= Len(d)
             /\ \A j \in 1..n :
                  \/ d[i + j - 1] = ExploitationMoreLikely[j]
                  \/ \E k \in DOMAIN LowerCase :
                       /\ LowerCase[k] = ExploitationMoreLikely[j]
                       /\ UpperCase[k] = d[i + j - 1]

RowsFor(df, v) == { j \in DOMAIN df : df[j].CVE = v.CVE }

CountOf(df, label) ==
    LET rows == { j \in DOMAIN df : df[j].Classification = label }
    IN  IF rows = {} THEN -1 ELSE df[CHOOSE j \in rows : TRUE].Count

NumMatched(vs, label) == Cardinality({ i \in DOMAIN vs : Matched(vs[i], label) })

----------------------------------------------------------------------------
(* C1 *)

\* C1: whatever the vulnerability list, the result of classification_counts
\* has one row for each of the 7 fixed labels and no other row, and the count
\* of a label that no vulnerability matched is 0.
C1_FixedLabels ==
    "classification_counts" \in ran =>
        /\ Cardinality(LabelSet) = 7
        /\ Len(df_class) = 7
        /\ \A label \in LabelSet :
             Cardinality({ j \in DOMAIN df_class : df_class[j].Classification = label }) = 1
        /\ \A j \in DOMAIN df_class :
             /\ df_class[j].Classification \in LabelSet
             /\ df_class[j].Count \in Nat
             /\ NumMatched(FetchedVulns, df_class[j].Classification) = 0
                  => df_class[j].Count = 0

\* classification_counts has run on a list with a Vulnerability threat whose
\* description is outside the fixed set
C1_Witness ==
    /\ "classification_counts" \in ran
    /\ \E i \in DOMAIN vulns : \E t \in ThreatsOf(vulns[i]) : NamesLabel(t, Tampering)

----------------------------------------------------------------------------
(* C2 *)

\* C2: for each of the 6 labels other than Edge - Chromium the count is the
\* number of vulnerabilities with at least one threat entry of type
\* Vulnerability whose description equals the label, so that a vulnerability
\* adds at most 1 to a label and no count exceeds the number of
\* vulnerabilities.
C2_OnePerVulnerability ==
    "classification_counts" \in ran =>
        \A label \in LabelSet :
            /\ label # EdgeChromium =>
                 CountOf(df_class, label)
                   = Cardinality({ i \in DOMAIN FetchedVulns :
                        \E t \in ThreatsOf(FetchedVulns[i]) : NamesLabel(t, label) })
            /\ CountOf(df_class, label) <= Len(FetchedVulns)

\* a vulnerability with two Spoofing entries has been counted once
C2_Witness ==
    /\ "classification_counts" \in ran
    /\ Len(vulns) = 1
    /\ "Threats" \in DOMAIN vulns[1]
    /\ Len(vulns[1].Threats) = 2
    /\ \A k \in 1..2 : NamesLabel(vulns[1].Threats[k], Spoofing)
    /\ CountOf(df_class, Spoofing) = 1

----------------------------------------------------------------------------
(* C3 *)

\* C3: the Edge - Chromium count is the number of vulnerabilities with at
\* least one threat entry of type Vulnerability whose description is
\* Edge - Chromium and whose product IDs contain 11655.
C3_ChromiumNeedsProduct ==
    "classification_counts" \in ran =>
        CountOf(df_class, EdgeChromium)
          = Cardinality({ i \in DOMAIN FetchedVulns :
               \E t \in ThreatsOf(FetchedVulns[i]) : NamesChromium(t) })

\* one vulnerability lists Edge - Chromium for product 99999 only, another
\* for products 11655 and 5, and the count is 1
C3_Witness ==
    /\ "classification_counts" \in ran
    /\ Len(vulns) = 2
    /\ \E a, b \in 1..2 :
         /\ Threats(vulns[a]) =
              << [Type |-> 0, Description |-> [Value |-> EdgeChromium], ProductID |-> <<"99999">>] >>
         /\ Threats(vulns[b]) =
              << [Type |-> 0, Description |-> [Value |-> EdgeChromium], ProductID |-> <<"11655", "5">>] >>
    /\ CountOf(df_class, EdgeChromium) = 1

----------------------------------------------------------------------------
(* C4 *)

\* C4: exploited_in_wild has exactly one row for a vulnerability with at
\* least one Exploit threat whose description contains "Exploited:Yes"
\* (in that case), no row for any other, and no more rows than
\* vulnerabilities.
C4_OneRowIfExploited ==
    "exploited_in_wild" \in ran =>
        /\ \A i \in DOMAIN FetchedVulns :
             Cardinality(RowsFor(df_wild, FetchedVulns[i]))
               = IF \E t \in ThreatsOf(FetchedVulns[i]) : SaysExploited(t) THEN 1 ELSE 0
        /\ \A j \in DOMAIN df_wild :
             \E i \in DOMAIN FetchedVulns : df_wild[j].CVE = FetchedVulns[i].CVE
        /\ Len(df_wild) <= Len(FetchedVulns)

\* a vulnerability whose first threat says "Exploited:yes" and whose second
\* says "Exploited:Yes" has its one row
C4_Witness ==
    /\ "exploited_in_wild" \in ran
    /\ Len(vulns) = 1
    /\ Len(Threats(vulns[1])) = 2
    /\ IsOfType(vulns[1].Threats[1], 1)
    /\ DescValue(vulns[1].Threats[1]) = ExploitedLowerYes
    /\ SaysExploited(vulns[1].Threats[2])
    /\ Len(df_wild) = 1

----------------------------------------------------------------------------
(* C5 *)

\* The score of a vulnerability, in tenths: the base score of the first
\* entry of its score sets, 0 when it has no entry (or the entry no score).
ScoreTenths(v) ==
    IF "CVSSScoreSets" \in DOMAIN v /\ Len(v.CVSSScoreSets) > 0
    THEN IF "BaseScore" \in DOMAIN v.CVSSScoreSets[1]
         THEN v.CVSSScoreSets[1].BaseScore.tenths
         ELSE 0
    ELSE 0

AtLeast(vs, th) == SelectSeq(vs, LAMBDA v : ScoreTenths(v) >= th.tenths)

\* C5: high_severity(threshold) has a row for exactly the vulnerabilities
\* whose score is >= threshold, in the order of the input, each with its
\* score as a float; a vulnerability with no score sets has score 0.0 and no
\* row at the default threshold 8.0.
C5_AtLeastThreshold ==
    "high_severity" \in ran =>
        LET want == AtLeast(FetchedVulns, threshold)
        IN  /\ Len(df_high) = Len(want)
            /\ \A j \in DOMAIN df_high :
                 /\ df_high[j].CVE = want[j].CVE
                 /\ df_high[j].Score = [py |-> "float", tenths |-> ScoreTenths(want[j])]
            /\ threshold.tenths = 80 =>
                 \A i \in DOMAIN FetchedVulns :
                     ("CVSSScoreSets" \notin DOMAIN FetchedVulns[i]
                        \/ FetchedVulns[i].CVSSScoreSets = <<>>)
                     => RowsFor(df_high, FetchedVulns[i]) = {}

\* at threshold 8.0, of two vulnerabilities the first scores exactly 8 and
\* has the one row, and the second has no score sets
C5_Witness ==
    /\ "high_severity" \in ran
    /\ threshold = DEFAULT_THRESHOLD
    /\ Len(vulns) = 2
    /\ ScoreSets(vulns[1]) = << [BaseScore |-> PyInt(8)] >>
    /\ ScoreSets(vulns[2]) = <<>>
    /\ Len(df_high) = 1
    /\ df_high[1].CVE = vulns[1].CVE

----------------------------------------------------------------------------
(* C6 *)

\* C6: likely_exploited has exactly one row for a vulnerability with at
\* least one Exploit threat whose description contains "exploitation more
\* likely" in any mix of upper and lower case, and no row for any other.
C6_OneRowIfLikely ==
    "likely_exploited" \in ran =>
        /\ \A i \in DOMAIN FetchedVulns :
             Cardinality(RowsFor(df_likely, FetchedVulns[i]))
               = IF \E t \in ThreatsOf(FetchedVulns[i]) : SaysLikely(t) THEN 1 ELSE 0
        /\ \A j \in DOMAIN df_likely :
             \E i \in DOMAIN FetchedVulns : df_likely[j].CVE = FetchedVulns[i].CVE

\* a vulnerability with two "EXPLOITATION MORE LIKELY" Exploit entries has
\* its one row
C6_Witness ==
    /\ "likely_exploited" \in ran
    /\ Len(vulns) = 1
    /\ Len(Threats(vulns[1])) = 2
    /\ \A k \in 1..2 :
         /\ IsOfType(vulns[1].Threats[k], 1)
         /\ DescValue(vulns[1].Threats[k]) = UpperMoreLikely
    /\ Len(df_likely) = 1

----------------------------------------------------------------------------
(* C7 *)

\* C7: once the GET has returned a status other than 200 the run is over:
\* that one request stays the only one, no pass has run and no table has
\* been built, and no file has been written.
C7_FailedFetchIsFatal ==
    /\ requests <= 1
    /\ (requests > 0 /\ resp.status_code # 200) =>
         /\ pc = "exited"
         /\ exit_msg = << resp.status_code, year_month >>
         /\ requests = 1
         /\ ran = {}
         /\ \A i \in DOMAIN dfs : dfs[i] = <<>>
         /\ files = {}

\* the GET has returned 404
C7_Witness ==
    /\ requests = 1
    /\ resp.status_code = 404
    /\ pc = "exited"

----------------------------------------------------------------------------
(* C8 *)

SheetNamesOf(f) == [i \in DOMAIN f.sheets |-> f.sheets[i].sheet_name]

\* C8 as stated: the report of a successful run has exactly the 5 sheets
\* Summary, By Classification, Exploited in Wild, High Severity and Likely
\* Exploited.
C8_AsStated ==
    pc = "done" =>
        \E f \in files :
            /\ f.name = "MSRC_" \o year_month \o ".xlsx"
            /\ SheetNamesOf(f) =
                 << "Summary", "By Classification", "Exploited in Wild",
                    "High Severity", "Likely Exploited" >>

\* C8 as amended: the report of a successful run is the one file
\* MSRC_<period>.xlsx, with exactly the 5 sheets Summary, By Classification,
\* Exploited in Wild, High Severity (>=8.0) and Likely Exploited, in that
\* order, holding the five tables.
C8_FiveSheets ==
    pc = "done" =>
        /\ Cardinality(files) = 1
        /\ \E f \in files :
            /\ f.name = "MSRC_" \o year_month \o ".xlsx"
            /\ SheetNamesOf(f) =
                 << "Summary", "By Classification", "Exploited in Wild",
                    "High Severity (>=8.0)", "Likely Exploited" >>
            /\ [i \in DOMAIN f.sheets |-> f.sheets[i].df] = dfs

\* the report has been written
C8_Witness ==
    /\ pc = "done"
    /\ \E f \in files : Len(f.sheets) = 5

----------------------------------------------------------------------------
(* C9 *)

\* the base scores of a vulnerability's score sets, in order
BaseScores(v) ==
    IF "CVSSScoreSets" \in DOMAIN v
    THEN SelectSeq(v.CVSSScoreSets, LAMBDA e : "BaseScore" \in DOMAIN e)
    ELSE <<>>

VulnOfRow(row) == FetchedVulns[CHOOSE i \in DOMAIN FetchedVulns : FetchedVulns[i].CVE = row.CVE]

\* C9 as stated: the Score of a row of exploited_in_wild is the first base
\* score found in the vulnerability's score sets, and 0 only when no score
\* set has one.
C9_AsStated ==
    "exploited_in_wild" \in ran =>
        \A j \in DOMAIN df_wild :
            LET found == BaseScores(VulnOfRow(df_wild[j]))
            IN  df_wild[j].Score.tenths = IF found = <<>> THEN 0 ELSE found[1].BaseScore.tenths

\* C9 as amended: the Score of a row of exploited_in_wild is the base score
\* of the first score set of the vulnerability, as the document gives it,
\* and the int 0 when the vulnerability has no score set or its first score
\* set has no base score.
C9_ScoreOfFirstSet ==
    "exploited_in_wild" \in ran =>
        \A j \in DOMAIN df_wild :
            LET v == VulnOfRow(df_wild[j])
            IN  df_wild[j].Score =
                  IF "CVSSScoreSets" \in DOMAIN v /\ Len(v.CVSSScoreSets) > 0
                       /\ "BaseScore" \in DOMAIN v.CVSSScoreSets[1]
                  THEN v.CVSSScoreSets[1].BaseScore
                  ELSE [py |-> "int", tenths |-> 0]

\* a row of a vulnerability whose first score set has no base score and
\* whose second has one
C9_Witness ==
    /\ "exploited_in_wild" \in ran
    /\ Len(vulns) = 1
    /\ Len(ScoreSets(vulns[1])) = 2
    /\ "BaseScore" \notin DOMAIN vulns[1].CVSSScoreSets[1]
    /\ "BaseScore" \in DOMAIN vulns[1].CVSSScoreSets[2]
    /\ Len(df_wild) = 1
    /\ df_wild[1].Score.tenths = 0

----------------------------------------------------------------------------
(* C10 *)

\* C10: whatever the order in which a client calls the four passes, the
\* title, the period and the vulnerability list stay those of construction,
\* and each pass that has run has the result it has in main's order, where
\* it runs on the list as fetched.
C10_AnyOrder ==
    pc = "ready" =>
        /\ resp.url = BASE_URL \o year_month
        /\ title = (IF "DocumentTitle" \in DOMAIN resp.body
                    THEN resp.body.DocumentTitle.Value ELSE "[no title]")
        /\ vulns = FetchedVulns
        /\ "classification_counts" \in ran => df_class = classification_counts(FetchedVulns)
        /\ "exploited_in_wild" \in ran => df_wild = exploited_in_wild(FetchedVulns)
        /\ "high_severity" \in ran => df_high = high_severity(FetchedVulns, threshold)
        /\ "likely_exploited" \in ran => df_likely = likely_exploited(FetchedVulns)

\* all four passes have run, likely_exploited and exploited_in_wild each with
\* a row, over a list with a classified vulnerability
C10_Witness ==
    /\ pc = "ready"
    /\ ran = PASSES
    /\ Len(df_likely) = 1
    /\ Len(df_wild) = 1
    /\ CountOf(df_class, Spoofing) = 1

====
